---- MODULE Spec2Model ----
(***************************************************************************)
(* Model of the FireEye alert e-mail digest: the dual-mode body parser     *)
(* (parsers/fireeye.py), the line-only parser of the entry point (maIn.py),*)
(* the attribution formatter (enrich/ipinfo_enrichment.py) and the digest  *)
(* assembler iter_alert_lines.                                             *)
(*                                                                         *)
(* Text is a sequence of one-character strings, so that strip(),           *)
(* splitlines(), the three regular expressions and json.loads are modelled *)
(* by what they do to characters.  "LS" stands for U+2028 LINE SEPARATOR.  *)
(* An Optional value is a sequence of length 0 (None) or 1.                *)
(***************************************************************************)
EXTENDS Integers, Sequences, FiniteSets, TLC

\* ------------------------------------------------------------------------
\* Bounds of the model
\* ------------------------------------------------------------------------
MaxLines == 4
MaxAlerts == 2

\* ------------------------------------------------------------------------
\* Characters and text primitives
\* ------------------------------------------------------------------------
QUOTE == "\""

\* str.isspace() / regex \s, restricted to the characters the model uses
Whitespace == {" ", "\t", "\n", "\r", "LS"}

\* the line boundaries of str.splitlines()
LineBreaks == {"\n", "\r", "LS"}

\* whitespace of the JSON grammar (U+2028 is not JSON whitespace)
JsonWhitespace == {" ", "\t", "\n", "\r"}

\* characters json.loads (strict) rejects raw inside a string literal
JsonControl == {"\t", "\n", "\r"}

Digits == {"0", "1", "2", "3", "4", "5", "6", "7", "8", "9"}

None == <<>>

Some(x) == <<x>>

\* F applied to the value of v, v being evaluated once
Let(v, F(_)) == CHOOSE y \in {F(x) : x \in {v}} : TRUE

Min(S) == CHOOSE x \in S : \A y \in S : x <= y

Max(S) == CHOOSE x \in S : \A y \in S : x >= y

\* re.IGNORECASE folding of the letters the patterns contain
Lower(c) ==
  CASE c = "S" -> "s" [] c = "I" -> "i" [] c = "G" -> "g" [] c = "N" -> "n"
    [] c = "A" -> "a" [] c = "M" -> "m" [] c = "E" -> "e" [] c = "R" -> "r"
    [] c = "C" -> "c" [] c = "P" -> "p" [] OTHER -> c

\* str.strip(): drop leading and trailing whitespace
Strip(s) ==
  LET keep == {i \in 1..Len(s) : s[i] \notin Whitespace}
  IN  IF keep = {} THEN <<>> ELSE SubSeq(s, Min(keep), Max(keep))

\* the k-th smallest element of a set of integers
Nth(I, k) == CHOOSE i \in I : Cardinality({j \in I : j < i}) = k - 1

\* the characters of s at the indices I, in order
Pick(s, I) == [k \in 1..Cardinality(I) |-> s[Nth(I, k)]]

\* s.replace(" ", ""): drop every space character (and nothing else)
RemoveSpaces(s) == Pick(s, {i \in 1..Len(s) : s[i] # " "})

\* needle in hay (substring test)
Contains(hay, needle) ==
  \E i \in 1..(Len(hay) - Len(needle) + 1) :
    SubSeq(hay, i, i + Len(needle) - 1) = needle

StartsWith(s, c) == Len(s) >= 1 /\ s[1] = c

EndsWith(s, c) == Len(s) >= 1 /\ s[Len(s)] = c

\* str.splitlines(): split at line boundaries ("\r\n" is one boundary);
\* no empty last line is produced for a trailing boundary.
\* BreakStarts: the indices where a boundary starts; BreakEnd: its last index
BreakStarts(s) ==
  {i \in 1..Len(s) : /\ s[i] \in LineBreaks
                     /\ ~(s[i] = "\n" /\ i > 1 /\ s[i - 1] = "\r")}

BreakEnd(s, i) ==
  IF s[i] = "\r" /\ i < Len(s) /\ s[i + 1] = "\n" THEN i + 1 ELSE i

SplitLines(s) ==
  LET B == BreakStarts(s)
      n == Cardinality(B)
      from(k) == IF k = 1 THEN 1 ELSE BreakEnd(s, Nth(B, k - 1)) + 1
      last == from(n + 1)
      whole == [k \in 1..n |-> SubSeq(s, from(k), Nth(B, k) - 1)]
  IN  IF last <= Len(s) THEN Append(whole, SubSeq(s, last, Len(s))) ELSE whole

\* "\n".join(lines)
RECURSIVE JoinLines(_)
JoinLines(ls) ==
  IF ls = <<>> THEN <<>>
  ELSE IF Len(ls) = 1 THEN ls[1]
  ELSE ls[1] \o <<"\n">> \o JoinLines(Tail(ls))

\* ------------------------------------------------------------------------
\* The three line patterns                          (fireeye.py 12-14)
\* ------------------------------------------------------------------------
\* first index >= i that holds no whitespace (Len+1 if there is none): \s*
SkipSpace(s, i) ==
  Min({j \in i..(Len(s) + 1) : j = Len(s) + 1 \/ s[j] \notin Whitespace})

\* does keyword kw occur at index i, ignoring case
KeywordAt(s, i, kw) ==
  /\ i + Len(kw) - 1 <= Len(s)
  /\ \A k \in 1..Len(kw) : Lower(s[i + k - 1]) = kw[k]

\* ^\s*kw\s*: -- the index just after the colon, or 0 when there is no match
MatchPrefix(s, kw) ==
  LET i == SkipSpace(s, 1)
  IN  IF ~KeywordAt(s, i, kw) THEN 0
      ELSE LET j == SkipSpace(s, i + Len(kw))
           IN  IF j <= Len(s) /\ s[j] = ":" THEN j + 1 ELSE 0

KW_SIG == <<"s", "i", "g", "-", "n", "a", "m", "e">>

KW_SNAME == <<"s", "n", "a", "m", "e">>

KW_SRC == <<"s", "r", "c">>

KW_IP == <<"i", "p">>

\* SIG_RE.match(line): None, or Some(group(2)); \s* after the colon is greedy,
\* (.*) takes the rest of the line
SIG_RE(line) ==
  LET a == MatchPrefix(line, KW_SIG)
      b == MatchPrefix(line, KW_SNAME)
      p == IF a > 0 THEN a ELSE b
  IN  IF p = 0 THEN None
      ELSE Some(SubSeq(line, SkipSpace(line, p), Len(line)))

\* SRC_RE.match(line) is not None: only whitespace may follow the colon
SRC_RE(line) ==
  LET p == MatchPrefix(line, KW_SRC)
  IN  p > 0 /\ SkipSpace(line, p) = Len(line) + 1

\* IP_RE used with search() instead of match(): the pattern anywhere in the line
IP_RE_Search(line) ==
  LET hits == {i \in 1..Len(line) :
                 /\ KeywordAt(line, i, KW_IP)
                 /\ SkipSpace(line, i + 2) <= Len(line)
                 /\ line[SkipSpace(line, i + 2)] = ":"}
  IN  IF hits = {} THEN None
      ELSE Some(SubSeq(line, SkipSpace(line, SkipSpace(line, Min(hits) + 2) + 1),
                       Len(line)))

\* IP_RE.match(line): None, or Some(group(1))
IP_RE(line) ==
  LET p == MatchPrefix(line, KW_IP)
  IN  IF p = 0 THEN None
      ELSE Some(SubSeq(line, SkipSpace(line, p), Len(line)))

\* ------------------------------------------------------------------------
\* JSON values and json.loads / json.dumps          (fireeye.py 41)
\* A value is [t, v]: t the type tag, v the characters of a string or a
\* number, the <<key, value>> pairs of an object in document order, or the
\* elements of an array.
\* ------------------------------------------------------------------------
JStr(s) == [t |-> "str", v |-> s]

JNum(s) == [t |-> "num", v |-> s]

JObj(pairs) == [t |-> "obj", v |-> pairs]

JArr(elems) == [t |-> "arr", v |-> elems]

JTrue == [t |-> "true", v |-> <<>>]

JFalse == [t |-> "false", v |-> <<>>]

JNull == [t |-> "null", v |-> <<>>]

Fail == [ok |-> FALSE, val |-> JNull, pos |-> 0]

Parsed(val, pos) == [ok |-> TRUE, val |-> val, pos |-> pos]

\* first index >= i that holds no JSON whitespace
SkipJsonWs(s, i) ==
  Min({j \in i..(Len(s) + 1) : j = Len(s) + 1 \/ s[j] \notin JsonWhitespace})

\* a string literal opening at s[i] = QUOTE (no escape sequences are modelled;
\* the inputs contain no backslash)
ScanString(s, i) ==
  Let({j \in (i + 1)..Len(s) : s[j] = QUOTE}, LAMBDA close :
    IF close = {} THEN Fail
    ELSE Let(Min(close), LAMBDA j :
           IF \E k \in (i + 1)..(j - 1) : s[k] \in JsonControl THEN Fail
           ELSE Parsed(JStr(SubSeq(s, i + 1, j - 1)), j + 1)))

\* an integer literal at s[i]: 0 | [1-9][0-9]*
ScanNumber(s, i) ==
  IF s[i] = "0" THEN Parsed(JNum(<<"0">>), i + 1)
  ELSE Let(Min({j \in i..(Len(s) + 1) : j = Len(s) + 1 \/ s[j] \notin Digits}),
           LAMBDA stop : Parsed(JNum(SubSeq(s, i, stop - 1)), stop))

ScanLiteral(s, i, word, val) ==
  IF i + Len(word) - 1 <= Len(s) /\ SubSeq(s, i, i + Len(word) - 1) = word
  THEN Parsed(val, i + Len(word))
  ELSE Fail

RECURSIVE ScanValue(_, _)
RECURSIVE ScanMembers(_, _, _)
RECURSIVE ScanElements(_, _, _)

\* members of an object, s[i] being the opening quote of the next key
ScanMembers(s, i, acc) ==
  IF i > Len(s) \/ s[i] # QUOTE THEN Fail
  ELSE Let(ScanString(s, i), LAMBDA k :
    IF ~k.ok THEN Fail
    ELSE Let(SkipJsonWs(s, k.pos), LAMBDA c :
      IF c > Len(s) \/ s[c] # ":" THEN Fail
      ELSE Let(ScanValue(s, SkipJsonWs(s, c + 1)), LAMBDA x :
        IF ~x.ok THEN Fail
        ELSE Let(SkipJsonWs(s, x.pos), LAMBDA e :
          IF e > Len(s) THEN Fail
          ELSE IF s[e] = "}"
               THEN Parsed(JObj(Append(acc, <<k.val.v, x.val>>)), e + 1)
          ELSE IF s[e] = ","
               THEN ScanMembers(s, SkipJsonWs(s, e + 1),
                                Append(acc, <<k.val.v, x.val>>))
          ELSE Fail))))

\* elements of an array, s[i] being the start of the next element
ScanElements(s, i, acc) ==
  Let(ScanValue(s, i), LAMBDA x :
    IF ~x.ok THEN Fail
    ELSE Let(SkipJsonWs(s, x.pos), LAMBDA e :
      IF e > Len(s) THEN Fail
      ELSE IF s[e] = "]" THEN Parsed(JArr(Append(acc, x.val)), e + 1)
      ELSE IF s[e] = ","
           THEN ScanElements(s, SkipJsonWs(s, e + 1), Append(acc, x.val))
      ELSE Fail))

ScanValue(s, i) ==
  IF i > Len(s) THEN Fail
  ELSE IF s[i] = QUOTE THEN ScanString(s, i)
  ELSE IF s[i] = "{"
       THEN Let(SkipJsonWs(s, i + 1), LAMBDA j :
              IF j <= Len(s) /\ s[j] = "}" THEN Parsed(JObj(<<>>), j + 1)
              ELSE ScanMembers(s, j, <<>>))
  ELSE IF s[i] = "["
       THEN Let(SkipJsonWs(s, i + 1), LAMBDA j :
              IF j <= Len(s) /\ s[j] = "]" THEN Parsed(JArr(<<>>), j + 1)
              ELSE ScanElements(s, j, <<>>))
  ELSE IF s[i] = "t" THEN ScanLiteral(s, i, <<"t", "r", "u", "e">>, JTrue)
  ELSE IF s[i] = "f" THEN ScanLiteral(s, i, <<"f", "a", "l", "s", "e">>, JFalse)
  ELSE IF s[i] = "n" THEN ScanLiteral(s, i, <<"n", "u", "l", "l">>, JNull)
  ELSE IF s[i] \in Digits THEN ScanNumber(s, i)
  ELSE Fail

\* json.loads(text): Some(value), or None when JSONDecodeError is raised
\* (also for text left over after the value: "Extra data")
JsonLoads(text) ==
  Let(ScanValue(text, SkipJsonWs(text, 1)), LAMBDA x :
    IF x.ok /\ SkipJsonWs(text, x.pos) = Len(text) + 1 THEN Some(x.val)
    ELSE None)

\* json.dumps(value) with the default separators ", " and ": "
RECURSIVE JsonDumps(_)
RECURSIVE DumpMembers(_)
RECURSIVE DumpElements(_)

DumpMembers(pairs) ==
  IF pairs = <<>> THEN <<>>
  ELSE <<QUOTE>> \o pairs[1][1] \o <<QUOTE, ":", " ">> \o JsonDumps(pairs[1][2])
       \o (IF Len(pairs) = 1 THEN <<>> ELSE <<",", " ">> \o DumpMembers(Tail(pairs)))

DumpElements(elems) ==
  IF elems = <<>> THEN <<>>
  ELSE JsonDumps(elems[1])
       \o (IF Len(elems) = 1 THEN <<>> ELSE <<",", " ">> \o DumpElements(Tail(elems)))

JsonDumps(x) ==
  CASE x.t = "str" -> <<QUOTE>> \o x.v \o <<QUOTE>>
    [] x.t = "num" -> x.v
    [] x.t = "true" -> <<"t", "r", "u", "e">>
    [] x.t = "false" -> <<"f", "a", "l", "s", "e">>
    [] x.t = "null" -> <<"n", "u", "l", "l">>
    [] x.t = "obj" -> <<"{">> \o DumpMembers(x.v) \o <<"}">>
    [] x.t = "arr" -> <<"[">> \o DumpElements(x.v) \o <<"]">>

\* isinstance(x, dict) / isinstance(x, str)
IsDict(x) == x.t = "obj"

IsStr(x) == x.t = "str"

\* bool(x) of a decoded value
Truthy(x) ==
  CASE x.t = "str" -> x.v # <<>>
    [] x.t = "num" -> x.v # <<"0">>
    [] x.t = "true" -> TRUE
    [] x.t = "false" -> FALSE
    [] x.t = "null" -> FALSE
    [] x.t = "obj" -> x.v # <<>>
    [] x.t = "arr" -> x.v # <<>>

\* key in d (d a dict)
HasKey(d, key) == \E i \in 1..Len(d.v) : d.v[i][1] = key

\* d.get(key, default): a repeated key keeps its last value
DictGet(d, key, default) ==
  IF HasKey(d, key)
  THEN d.v[Max({i \in 1..Len(d.v) : d.v[i][1] = key})][2]
  ELSE default

\* ------------------------------------------------------------------------
\* parse_fireeye_email_body, structured mode        (fireeye.py 38-66)
\* ------------------------------------------------------------------------
K_alert == <<"a", "l", "e", "r", "t">>

K_src == <<"s", "r", "c">>

K_dst == <<"d", "s", "t">>

K_ip == <<"i", "p">>

K_explanation == <<"e", "x", "p", "l", "a", "n", "a", "t", "i", "o", "n">>

K_ips_detected == <<"i", "p", "s", "-", "d", "e", "t", "e", "c", "t", "e", "d">>

K_sig_name == <<"s", "i", "g", "-", "n", "a", "m", "e">>

\* body or ""
OrEmpty(body) == IF body = None THEN <<>> ELSE body[1]

Triple(sig, src, dst) == [sig_name |-> sig, src_ip |-> src, dst_ip |-> dst]

EmptyTriple == Triple(<<>>, <<>>, <<>>)

\* (d.get(key) or "").strip() for a dict d: the text, or AttributeError when
\* the value is truthy and has no strip()
\* StripLeaf without the strip()
StripLeafUnstripped(d, key) ==
  LET x == DictGet(d, key, JNull)
  IN  IF ~Truthy(x) THEN [raised |-> FALSE, val |-> <<>>]
      ELSE IF IsStr(x) THEN [raised |-> FALSE, val |-> x.v]
      ELSE [raised |-> TRUE, val |-> <<>>]

StripLeaf(d, key) ==
  LET x == DictGet(d, key, JNull)
  IN  IF ~Truthy(x) THEN [raised |-> FALSE, val |-> <<>>]
      ELSE IF IsStr(x) THEN [raised |-> FALSE, val |-> Strip(x.v)]
      ELSE [raised |-> TRUE, val |-> <<>>]

\* alert.get(key, {}) if isinstance(alert, dict) else {}
SubDict(alert, key) ==
  IF IsDict(alert) THEN DictGet(alert, key, JObj(<<>>)) ELSE JObj(<<>>)

\* the body of the try block: what it does with the stripped text.
\*   "return"  the structured triple is returned           (line 64)
\*   "empty"   the block ends with all three fields empty  (line 63 false)
\*   "raised"  an exception left the block                 (line 65)
StructuredAttempt(text) ==
  Let(JsonLoads(text), LAMBDA loaded :
      IF loaded = None THEN [outcome |-> "raised", val |-> EmptyTriple]
      ELSE
      LET payload == loaded[1]
          alert == IF IsDict(payload) THEN DictGet(payload, K_alert, JObj(<<>>))
                   ELSE JObj(<<>>)
          src == SubDict(alert, K_src)
          dst == SubDict(alert, K_dst)
          s == IF IsDict(src) THEN StripLeaf(src, K_ip)
               ELSE [raised |-> FALSE, val |-> <<>>]
          d == IF IsDict(dst) THEN StripLeaf(dst, K_ip)
               ELSE [raised |-> FALSE, val |-> <<>>]
          explanation == SubDict(alert, K_explanation)
          ips_detected == IF IsDict(explanation)
                          THEN DictGet(explanation, K_ips_detected, JObj(<<>>))
                          ELSE JNull
          g == IF IsDict(explanation) /\ IsDict(ips_detected)
               THEN StripLeaf(ips_detected, K_sig_name)
               ELSE [raised |-> FALSE, val |-> <<>>]
      IN  IF s.raised \/ d.raised \/ g.raised
          THEN [outcome |-> "raised", val |-> EmptyTriple]
          ELSE IF g.val # <<>> \/ s.val # <<>> \/ d.val # <<>>
          THEN [outcome |-> "return", val |-> Triple(g.val, s.val, d.val)]
          ELSE [outcome |-> "empty", val |-> EmptyTriple])

\* sig_name, src_ip, dst_ip as the try block leaves them when it is
\* abandoned: src_ip is assigned at line 51, dst_ip at 53, sig_name at 61,
\* and an exception skips the assignments after it         (lines 44-66)
PartialFields(text) ==
  Let(JsonLoads(text), LAMBDA loaded :
      IF loaded = None THEN EmptyTriple
      ELSE
      LET payload == loaded[1]
          alert == IF IsDict(payload) THEN DictGet(payload, K_alert, JObj(<<>>))
                   ELSE JObj(<<>>)
          src == SubDict(alert, K_src)
          dst == SubDict(alert, K_dst)
          s == IF IsDict(src) THEN StripLeaf(src, K_ip)
               ELSE [raised |-> FALSE, val |-> <<>>]
          d == IF IsDict(dst) THEN StripLeaf(dst, K_ip)
               ELSE [raised |-> FALSE, val |-> <<>>]
          explanation == SubDict(alert, K_explanation)
          ips_detected == IF IsDict(explanation)
                          THEN DictGet(explanation, K_ips_detected, JObj(<<>>))
                          ELSE JNull
          g == IF IsDict(explanation) /\ IsDict(ips_detected)
               THEN StripLeaf(ips_detected, K_sig_name)
               ELSE [raised |-> FALSE, val |-> <<>>]
      IN  IF s.raised THEN EmptyTriple
          ELSE IF d.raised THEN Triple(<<>>, s.val, <<>>)
          ELSE IF g.raised THEN Triple(<<>>, s.val, d.val)
          ELSE Triple(g.val, s.val, d.val))

\* text.startswith("{") and text.endswith("}")            (line 39)
LooksLikeJson(text) == StartsWith(text, "{") /\ EndsWith(text, "}")

\* _get_nested(d, path): the text at the path, "" for a missing key, a
\* non-dict on the way or a non-text value             (fireeye.py 17-23)
RECURSIVE get_nested(_, _)
get_nested(d, path) ==
  IF path = <<>> THEN (IF IsStr(d) THEN d.v ELSE <<>>)
  ELSE IF ~IsDict(d) \/ ~HasKey(d, Head(path)) THEN <<>>
  ELSE get_nested(DictGet(d, Head(path), JNull), Tail(path))

\* ------------------------------------------------------------------------
\* parse_fireeye_email_body, line mode   (fireeye.py 68-92, maIn.py 35-59)
\* ------------------------------------------------------------------------
\* the accumulators and the flag at the start of the loop
LineStart ==
  [sig_name |-> <<>>, src_ip |-> <<>>, dst_ip |-> <<>>, expecting_src_ip |-> FALSE]

\* which branch of the loop body a line takes
LineKind(line) ==
  IF SIG_RE(line) # None THEN "sig"
  ELSE IF SRC_RE(line) THEN "src"
  ELSE IF IP_RE(line) # None THEN "ip"
  ELSE "other"

\* LineStep with the flag left set after a source capture
LineStepKeepsFlag(st, line) ==
  CASE LineKind(line) = "sig" ->
         [st EXCEPT !.sig_name = Strip(SIG_RE(line)[1])]
    [] LineKind(line) = "src" ->
         [st EXCEPT !.expecting_src_ip = TRUE]
    [] LineKind(line) = "ip" ->
         IF st.expecting_src_ip
         THEN [st EXCEPT !.src_ip = Strip(IP_RE(line)[1])]
         ELSE [st EXCEPT !.dst_ip = Strip(IP_RE(line)[1])]
    [] OTHER -> st

\* LineStep where a marker arms the capture only while no source is held
LineStepArmsOnce(st, line) ==
  CASE LineKind(line) = "sig" ->
         [st EXCEPT !.sig_name = Strip(SIG_RE(line)[1])]
    [] LineKind(line) = "src" ->
         [st EXCEPT !.expecting_src_ip = (st.src_ip = <<>>)]
    [] LineKind(line) = "ip" ->
         IF st.expecting_src_ip
         THEN [st EXCEPT !.src_ip = Strip(IP_RE(line)[1]),
                         !.expecting_src_ip = FALSE]
         ELSE [st EXCEPT !.dst_ip = Strip(IP_RE(line)[1])]
    [] OTHER -> st

\* LineStep where a signature line disarms the capture
LineStepSigDisarms(st, line) ==
  CASE LineKind(line) = "sig" ->
         [st EXCEPT !.sig_name = Strip(SIG_RE(line)[1]),
                    !.expecting_src_ip = FALSE]
    [] LineKind(line) = "src" ->
         [st EXCEPT !.expecting_src_ip = TRUE]
    [] LineKind(line) = "ip" ->
         IF st.expecting_src_ip
         THEN [st EXCEPT !.src_ip = Strip(IP_RE(line)[1]),
                         !.expecting_src_ip = FALSE]
         ELSE [st EXCEPT !.dst_ip = Strip(IP_RE(line)[1])]
    [] OTHER -> st

\* one iteration of the loop body
LineStep(st, line) ==
  CASE LineKind(line) = "sig" ->
         [st EXCEPT !.sig_name = Strip(SIG_RE(line)[1])]
    [] LineKind(line) = "src" ->
         [st EXCEPT !.expecting_src_ip = TRUE]
    [] LineKind(line) = "ip" ->
         IF st.expecting_src_ip
         THEN [st EXCEPT !.src_ip = Strip(IP_RE(line)[1]),
                         !.expecting_src_ip = FALSE]
         ELSE [st EXCEPT !.dst_ip = Strip(IP_RE(line)[1])]
    [] OTHER -> st

RECURSIVE ScanLines(_, _)
ScanLines(st, ls) ==
  IF ls = <<>> THEN st
  ELSE Let(LineStep(st, Head(ls)), LAMBDA next : ScanLines(next, Tail(ls)))

\* MainParse with the return inside the loop: only the first line is read
MainParseReturnsInLoop(text) ==
  LET ls == SplitLines(text)
      st == ScanLines(LineStart, IF ls = <<>> THEN <<>> ELSE <<ls[1]>>)
  IN  Triple(st.sig_name, st.src_ip, st.dst_ip)

\* the line-only parser of maIn.py
MainParse(text) ==
  LET st == ScanLines(LineStart, SplitLines(text))
  IN  Triple(st.sig_name, st.src_ip, st.dst_ip)

\* AfterTry without the except clause: the exception leaves the call
AfterTryNoExcept(outcome) ==
  CASE outcome = "return" -> "return"
    [] outcome = "empty" -> "linemode"
    [] outcome = "raised" -> "propagate"

\* AfterTry where a document with no field ends the call with the empty
\* triple
AfterTryReturnsEmpty(outcome) ==
  CASE outcome = "return" -> "return"
    [] outcome = "empty" -> "return"
    [] outcome = "raised" -> "linemode"

\* where control goes after the try block: the return of line 64, or line
\* mode, both when the fields are all empty and when "except Exception: pass"
\* has swallowed an exception                              (lines 63-68)
AfterTry(outcome) ==
  CASE outcome = "return" -> "return"
    [] outcome = "empty" -> "linemode"
    [] outcome = "raised" -> "linemode"

\* the first part of the call: "return", "linemode" or "propagate"
Dispatch(body) ==
  LET text == Strip(OrEmpty(body))
  IN  IF LooksLikeJson(text) THEN AfterTry(StructuredAttempt(text).outcome)
      ELSE "linemode"

Returned(val) == [raised |-> FALSE, val |-> val]

Raised == [raised |-> TRUE, val |-> EmptyTriple]

\* the dual-mode parser of parsers/fireeye.py as one call
FireeyeParse(body) ==
  CASE Dispatch(body) = "return" ->
         Returned(StructuredAttempt(Strip(OrEmpty(body))).val)
    [] Dispatch(body) = "linemode" -> Returned(MainParse(OrEmpty(body)))
    [] OTHER -> Raised

\* ------------------------------------------------------------------------
\* safe_ipinfo_lookup           (ipinfo_enrichment.py 9-31, maIn.py 62-85)
\* ------------------------------------------------------------------------
FROM == <<"f", "r", "o", "m", " ">>

DEGENERATE == <<"f", "r", "o", "m", ",", "(", ")">>

\* re.match(r"^\d{1,3}(\.\d{1,3}){3}$", ip): four groups of one to three
\* digits separated by dots ($ also matches before one trailing newline)
ShapeOk(ip) ==
  LET s == IF EndsWith(ip, "\n") THEN SubSeq(ip, 1, Len(ip) - 1) ELSE ip
      dots == {i \in 1..Len(s) : s[i] = "."}
      cuts == dots \cup {0, Len(s) + 1}
  IN  /\ Cardinality(dots) = 3
      /\ \A i \in 1..Len(s) : s[i] \in Digits \/ s[i] = "."
      /\ \A k \in 1..4 : Nth(cuts, k + 1) - Nth(cuts, k) - 1 \in 1..3

\* details.get(key) or "": a missing or None sub-field reads as empty text
FieldOrEmpty(field) == IF field = None THEN <<>> ELSE field[1]

\* f"from {city}, {country} ({org})".strip()
Compose(details) ==
  Strip(FROM \o FieldOrEmpty(details.city) \o <<",", " ">>
        \o FieldOrEmpty(details.country_name) \o <<" ", "(">>
        \o FieldOrEmpty(details.org) \o <<")">>)

\* LooksEmpty without the replace of line 27
LooksEmptyUnnormalized(out) == Contains(out, DEGENERATE)

\* "from,()" in normalized or normalized in {"from,()", "from,()"}
LooksEmpty(out) ==
  LET normalized == RemoveSpaces(out)
  IN  Contains(normalized, DEGENERATE) \/ normalized \in {DEGENERATE, DEGENERATE}

\* lines 22-31: the attribution for a detail record, None when it is empty-ish
FormatDetails(details) ==
  LET out == Compose(details)
  IN  IF LooksEmpty(out) THEN None ELSE Some(out)

\* Forwarded without the shape check of line 14
ForwardedUnchecked(ip) == TRUE

\* is handler.getDetails called for this address (line 14 lets it through)
Forwarded(ip) == ShapeOk(ip)

\* what the call hands back: an Optional text, or an exception
Answer(x) == [raised |-> FALSE, val |-> x]

Thrown == [raised |-> TRUE, val |-> None]

\* OnFault without the except clause: the exception leaves the call
OnFaultPropagates(reply) == Thrown

\* lines 19-20: except Exception: return None
OnFault(reply) == Answer(None)

\* the whole call, reply being what handler.getDetails(ip).all does:
\* [fault |-> TRUE] for any exception, else [fault |-> FALSE, details |-> d]
safe_ipinfo_lookup(ip, reply) ==
  IF ~Forwarded(ip) THEN Answer(None)
  ELSE IF reply.fault THEN OnFault(reply)
  ELSE Answer(FormatDetails(reply.details))

\* ------------------------------------------------------------------------
\* Inputs: alert bodies
\* ------------------------------------------------------------------------
\* a line where the pattern is not at the start: no pattern matches
L_OTHER ==
  <<"x", " ", "i", "p", ":", " ", "7">>

\* lines of the legacy format, with the case and spacing the patterns allow
LineSet ==
  {<<" ", "S", "i", "g", "-", "N", "a", "m", "e", " ", ":", " ", " ", "T",
     "e", "s", "t", " ", "A", "l", "e", "r", "t", "\t">>,
   <<"s", "n", "a", "m", "e", ":", "O", "t", "h", "e", "r">>,
   <<"S", "R", "C", " ", ":", " ">>,
   <<"i", "p", ":", " ", "2", "0", "3", ".", "0", ".", "1", "1", "3", ".",
     "4", "5">>,
   <<" ", "I", "P", " ", ":", "1", "9", "8", ".", "5", "1", ".", "1", "0",
     "0", ".", "1", "0", " ">>,
   L_OTHER}

\* every body of at most MaxLines lines of LineSet, joined by "\n"
LineBodies ==
  UNION {{JoinLines(ls) : ls \in [1..n -> LineSet]} : n \in 0..MaxLines}

V_SRC ==
  <<"2", "0", "3", ".", "0", ".", "1", "1", "3", ".", "9">>

V_DST ==
  <<"1", "9", "8", ".", "5", "1", ".", "1", "0", "0", ".", "8", "8">>

V_SIG ==
  <<"T", "e", "s", "t", " ", "S", "i", "g", "n", "a", "t", "u", "r", "e">>

K_msg ==
  <<"m", "s", "g">>

\* a string holding U+2028: legal raw inside a JSON string, a line boundary
\* for splitlines()
V_EMBED ==
  <<"n", "o", "r", "m", "a", "l", "LS", "i", "p", ":", " ", "6", ".", "6",
    ".", "6", ".", "6">>

\* the values tried at a leaf: the key absent (None), the text, the text
\* padded with whitespace, blank text, a number, null
Leaves(text) ==
  <<None, Some(JStr(text)), Some(JStr(<<" ">> \o text \o <<" ">>)),
    Some(JStr(<<" ">>)), Some(JNum(<<"5">>)), Some(JNull)>>

\* the pair <<key, value>> when the value is present
Member(key, leaf) == IF leaf = None THEN <<>> ELSE <<<<key, leaf[1]>>>>

\* {"ip": x}
IpObj(x) == JObj(<<<<K_ip, x>>>>)

\* {"ips-detected": {"sig-name": x}}
SigObj(x) == JObj(<<<<K_ips_detected, JObj(<<<<K_sig_name, x>>>>)>>>>)

\* the JSON alert schema, each leaf optional, with an extra top-level key
AlertDoc(src, dst, sig, extra) ==
  JObj(<<<<K_alert,
           JObj(Member(K_src, IF src = None THEN None ELSE Some(IpObj(src[1])))
                \o Member(K_dst, IF dst = None THEN None ELSE Some(IpObj(dst[1])))
                \o Member(K_explanation,
                          IF sig = None THEN None ELSE Some(SigObj(sig[1]))))>>>>
       \o Member(K_msg, extra))

Extras == <<None, Some(JStr(V_EMBED))>>

SchemaBodies ==
  {JsonDumps(AlertDoc(Leaves(V_SRC)[a], Leaves(V_DST)[b], Leaves(V_SIG)[c],
                      Extras[e])) :
     a \in 1..6, b \in 1..6, c \in 1..6, e \in 1..2}

\* documents off the schema: containers that are no objects, other leaf types
OddValues ==
  <<JNum(<<"7">>), JNum(<<"0">>), JStr(<<"x">>), JStr(<<>>), JTrue, JFalse, JNull,
    JArr(<<>>), JArr(<<JNum(<<"1">>)>>), JObj(<<>>)>>

\* {"alert": x}
AlertOf(x) == JObj(<<<<K_alert, x>>>>)

\* the document with the odd value x at the given place, the other fields
\* holding text
OddDoc(place, x) ==
  CASE place = 1 -> AlertOf(x)
    [] place = 2 -> AlertOf(JObj(<<<<K_src, x>>, <<K_dst, IpObj(JStr(V_DST))>>>>))
    [] place = 3 -> AlertOf(JObj(<<<<K_src, IpObj(JStr(V_SRC))>>, <<K_dst, IpObj(x)>>>>))
    [] place = 4 -> AlertOf(JObj(<<<<K_explanation, x>>,
                                   <<K_dst, IpObj(JStr(V_DST))>>>>))
    [] place = 5 -> AlertOf(JObj(<<<<K_explanation, JObj(<<<<K_ips_detected, x>>>>)>>,
                                   <<K_src, IpObj(JStr(V_SRC))>>>>))
    [] place = 6 -> AlertOf(JObj(<<<<K_explanation, SigObj(x)>>,
                                   <<K_src, IpObj(JStr(V_SRC))>>>>))

OddBodies == {JsonDumps(OddDoc(place, OddValues[i])) : place \in 1..6, i \in 1..10}

JsonBodies == SchemaBodies \cup OddBodies

\* the bodies of the tests and other texts written out
\* test_source_ip_ordering
B_TEST_ORDERING ==
  <<"s", "i", "g", "-", "n", "a", "m", "e", ":", " ", "T", "e", "s", "t",
    " ", "A", "l", "e", "r", "t", "\n", "s", "r", "c", ":", "\n", "i", "p",
    ":", " ", "2", "0", "3", ".", "0", ".", "1", "1", "3", ".", "4", "5",
    "\n", "i", "p", ":", " ", "1", "9", "8", ".", "5", "1", ".", "1", "0",
    "0", ".", "1", "0", "\n">>

\* test_missing_fields
B_TEST_MISSING ==
  <<"u", "n", "r", "e", "l", "a", "t", "e", "d", " ", "t", "e", "x", "t",
    "\n">>

\* the same format with Outlook line ends and an empty line
B_CRLF ==
  <<"s", "n", "a", "m", "e", ":", " ", "O", "t", "h", "e", "r", "\r", "\n",
    "s", "r", "c", ":", "\r", "\n", "i", "p", ":", " ", "2", "0", "3", ".",
    "0", ".", "1", "1", "3", ".", "4", "5", "\r", "\n", "\r", "\n", "i",
    "p", ":", " ", "1", "9", "8", ".", "5", "1", ".", "1", "0", "0", ".",
    "1", "0", "\r", "\n">>

\* a document spread over lines, as in the fixture file
B_PRETTY ==
  <<"{", "\n", " ", QUOTE, "a", "l", "e", "r", "t", QUOTE, ":", " ", "{",
    "\n", " ", " ", QUOTE, "s", "r", "c", QUOTE, ":", " ", "{", QUOTE, "i",
    "p", QUOTE, ":", " ", QUOTE, "2", "0", "3", ".", "0", ".", "1", "1",
    "3", ".", "4", "5", QUOTE, "}", ",", "\n", " ", " ", QUOTE, "d", "s",
    "t", QUOTE, ":", " ", "{", QUOTE, "i", "p", QUOTE, ":", " ", QUOTE,
    "1", "9", "8", ".", "5", "1", ".", "1", "0", "0", ".", "1", "0", QUOTE,
    "}", "\n", " ", "}", "\n", "}", "\n">>

\* brace-delimited text that is no JSON
B_NOT_JSON ==
  <<"{", "\n", "s", "i", "g", "-", "n", "a", "m", "e", ":", " ", "T", "e",
    "s", "t", " ", "A", "l", "e", "r", "t", "\n", "s", "r", "c", ":", "\n",
    "i", "p", ":", " ", "2", "0", "3", ".", "0", ".", "1", "1", "3", ".",
    "4", "5", "\n", "}">>

\* a document followed by more text
B_EXTRA_DATA ==
  <<"{", QUOTE, "a", "l", "e", "r", "t", QUOTE, ":", " ", "{", QUOTE, "d",
    "s", "t", QUOTE, ":", " ", "{", QUOTE, "i", "p", QUOTE, ":", " ",
    QUOTE, "1", "9", "8", ".", "5", "1", ".", "1", "0", "0", ".", "8", "8",
    QUOTE, "}", "}", "}", " ", "i", "p", ":", " ", "7", "}">>

\* valid JSON that is no object
B_ARRAY ==
  <<"[", "{", QUOTE, "a", "l", "e", "r", "t", QUOTE, ":", " ", "{", QUOTE,
    "d", "s", "t", QUOTE, ":", " ", "{", QUOTE, "i", "p", QUOTE, ":", " ",
    QUOTE, "1", "9", "8", ".", "5", "1", ".", "1", "0", "0", ".", "8", "8",
    QUOTE, "}", "}", "}", "]">>

\* a document with whitespace around it
B_PADDED_DOC ==
  <<" ", "\n", "{", QUOTE, "a", "l", "e", "r", "t", QUOTE, ":", "{", QUOTE,
    "s", "r", "c", QUOTE, ":", "{", QUOTE, "i", "p", QUOTE, ":", QUOTE,
    "2", "0", "3", ".", "0", ".", "1", "1", "3", ".", "9", QUOTE, "}", "}",
    "}", "\n", " ">>

\* blank text
B_BLANK ==
  <<" ", "\n">>

TextBodies ==
  {<<>>, B_TEST_ORDERING, B_TEST_MISSING, B_CRLF, B_PRETTY, B_NOT_JSON,
   B_EXTRA_DATA, B_ARRAY, B_PADDED_DOC, B_BLANK}

\* the body argument: None (absent) or a text
Bodies == {None} \cup {Some(b) : b \in LineBodies \cup JsonBodies \cup TextBodies}

\* ------------------------------------------------------------------------
\* Inputs: messages of the mailbox and replies of the lookup service
\* ------------------------------------------------------------------------
\* a legacy alert with a well-formed source
A_VALID ==
  <<"s", "i", "g", "-", "n", "a", "m", "e", ":", " ", "T", "e", "s", "t",
    " ", "A", "l", "e", "r", "t", "\n", "s", "r", "c", ":", "\n", "i", "p",
    ":", " ", "2", "0", "3", ".", "0", ".", "1", "1", "3", ".", "4", "5",
    "\n", "i", "p", ":", " ", "1", "9", "8", ".", "5", "1", ".", "1", "0",
    "0", ".", "1", "0", "\n">>

\* a source out of the 0-255 range, no signature, no destination
A_RANGE ==
  <<"s", "r", "c", ":", "\n", "i", "p", ":", " ", "9", "9", "9", ".", "9",
    "9", "9", ".", "9", "9", "9", ".", "9", "9", "9", "\n">>

\* a source that is no dotted quad
A_HOST ==
  <<"s", "n", "a", "m", "e", ":", " ", "O", "t", "h", "e", "r", "\n", "s",
    "r", "c", ":", "\n", "i", "p", ":", " ", "e", "v", "i", "l", ".", "e",
    "x", "a", "m", "p", "l", "e", "\n", "i", "p", ":", " ", "1", "9", "8",
    ".", "5", "1", ".", "1", "0", "0", ".", "1", "0">>

\* a structured alert
A_JSON ==
  <<"{", QUOTE, "a", "l", "e", "r", "t", QUOTE, ":", " ", "{", QUOTE, "s",
    "r", "c", QUOTE, ":", " ", "{", QUOTE, "i", "p", QUOTE, ":", " ",
    QUOTE, "2", "0", "3", ".", "0", ".", "1", "1", "3", ".", "9", QUOTE,
    "}", ",", " ", QUOTE, "d", "s", "t", QUOTE, ":", " ", "{", QUOTE, "i",
    "p", QUOTE, ":", " ", QUOTE, "1", "9", "8", ".", "5", "1", ".", "1",
    "0", "0", ".", "8", "8", QUOTE, "}", "}", "}">>

\* SentOn values: a datetime is [h, m, s]
Morning == [h |-> 9, m |-> 5, s |-> 30]

\* the messages the folder may hold (Body and SentOn may be missing)
Messages ==
  {[Body |-> Some(A_VALID), SentOn |-> Some(Morning)],
   [Body |-> Some(A_RANGE), SentOn |-> None],
   [Body |-> Some(A_HOST), SentOn |-> Some([h |-> 0, m |-> 0, s |-> 0])],
   [Body |-> Some(A_JSON), SentOn |-> Some(Morning)],
   [Body |-> Some(B_TEST_MISSING), SentOn |-> Some(Morning)],
   [Body |-> None, SentOn |-> None]}

V_CITY ==
  <<"A", "s", "h", "b", "u", "r", "n">>

V_COUNTRY ==
  <<"U", "n", "i", "t", "e", "d", " ", "S", "t", "a", "t", "e", "s">>

V_ORG ==
  <<"A", "S", "0", " ", "E", "x", "a", "m", "p", "l", "e">>

Details(city, country_name, org) ==
  [city |-> city, country_name |-> country_name, org |-> org]

NoDetails == Details(None, None, None)

Fault == [fault |-> TRUE, details |-> NoDetails]

Reply(details) == [fault |-> FALSE, details |-> details]

\* what handler.getDetails(ip).all may do during a run of the digest
Replies ==
  {Fault, Reply(NoDetails), Reply(Details(Some(<<>>), None, Some(<<>>))),
   Reply(Details(Some(V_CITY), Some(V_COUNTRY), Some(V_ORG)))}

\* the replies tried on the formatter alone
AllReplies ==
  {Fault}
  \cup {Reply(Details(c, n, o)) :
          c \in {None, Some(<<>>), Some(V_CITY), Some(<<"\t">>),
                 Some(<<"U", "f", "r", "o", "m">>)},
          n \in {None, Some(V_COUNTRY), Some(<<" ">>)},
          o \in {None, Some(V_ORG)}}

\* the addresses tried on the formatter alone
IP_VALID ==
  <<"2", "0", "3", ".", "0", ".", "1", "1", "3", ".", "4", "5">>

IP_RANGE ==
  <<"9", "9", "9", ".", "9", "9", "9", ".", "9", "9", "9", ".", "9", "9",
    "9">>

IP_HOST ==
  <<"e", "v", "i", "l", ".", "e", "x", "a", "m", "p", "l", "e">>

Addresses ==
  {<<>>, IP_VALID, IP_RANGE, IP_HOST,
   <<"1", "0", ".", "0", ".", "1">>,
   <<"1", "0", ".", "0", ".", "0", ".", "1", ".", "2">>,
   <<"1", "0", ".", "0", ".", "0", ".", "1", "x">>,
   <<"1", "0", "0", "0", ".", "0", ".", "0", ".", "1">>}

\* ------------------------------------------------------------------------
\* iter_alert_lines: the lines of one alert   (fireeye.py 110-138,
\*                                             maIn.py 103-129)
\* ------------------------------------------------------------------------
UnknownTime ==
  <<"U", "n", "k", "n", "o", "w", "n", "T", "i", "m", "e">>

UnknownSig ==
  <<"U", "n", "k", "n", "o", "w", "n", "S", "i", "g">>

UnknownDst ==
  <<"U", "n", "k", "n", "o", "w", "n", "D", "s", "t">>

UnknownSrc ==
  <<"U", "n", "k", "n", "o", "w", "n", "S", "r", "c">>

UNIDENTIFIED ==
  <<"U", "N", "I", "D", "E", "N", "T", "I", "F", "I", "E", "D">>

SOURCE_LABEL ==
  <<"\t", "\t", "S", "o", "u", "r", "c", "e", ":", " ">>

Digit(n) == <<"0", "1", "2", "3", "4", "5", "6", "7", "8", "9">>[n + 1]

TwoDigits(n) == <<Digit(n \div 10), Digit(n % 10)>>

\* str(sent_on.time()): HH:MM:SS
TimeStr(t) == TwoDigits(t.h) \o <<":">> \o TwoDigits(t.m) \o <<":">> \o TwoDigits(t.s)

\* x or default
OrText(x, default) == IF x = <<>> THEN default ELSE x

\* str(sent_time) if sent_time else "UnknownTime"
TimeOrUnknown(sent_on) == IF sent_on = None THEN UnknownTime ELSE TimeStr(sent_on[1])

\* HeaderLine with the signature and the destination exchanged
HeaderLineSwapped(sent_on, sig_name, dst_ip) ==
  TimeOrUnknown(sent_on) \o <<":", " ">> \o OrText(dst_ip, UnknownDst)
  \o <<" ", "-", " ">> \o OrText(sig_name, UnknownSig) \o <<"\n">>

\* f"{time_str}: {sig_name or 'UnknownSig'} - {dst_ip or 'UnknownDst'}\n"
HeaderLine(sent_on, sig_name, dst_ip) ==
  TimeOrUnknown(sent_on) \o <<":", " ">> \o OrText(sig_name, UnknownSig)
  \o <<" ", "-", " ">> \o OrText(dst_ip, UnknownDst) \o <<"\n">>

\* f"\t\tSource: {src_ip or 'UnknownSrc'}\n"
SourceLine(src_ip) == SOURCE_LABEL \o OrText(src_ip, UnknownSrc) \o <<"\n">>

\* f"\t\t{attribution if attribution else 'UNIDENTIFIED'}\n"
AttributionLine(attribution) ==
  <<"\t", "\t">>
  \o (IF attribution = None \/ attribution[1] = <<>> THEN UNIDENTIFIED
      ELSE attribution[1])
  \o <<"\n">>

\* if ipinfo_handler and src_ip
WantsLookup(has_handler, src_ip) == has_handler /\ src_ip # <<>>

\* the parser each module's iter_alert_lines calls
ParseFor(which, body) ==
  IF which = "fireeye" THEN FireeyeParse(body)
  ELSE Returned(MainParse(OrEmpty(body)))

\* ------------------------------------------------------------------------
\* State
\* ------------------------------------------------------------------------
VARIABLES
  which,        \* the module that runs: "fireeye" (parsers/fireeye.py) or "main" (maIn.py)
  \* one call of parse_fireeye_email_body, line by line
  body,         \* the argument: None or Some(text)
  p_pc,         \* "idle", "call", "scan", "done"
  lines,        \* the lines the loop has still to read
  acc,          \* sig_name, src_ip, dst_ip, expecting_src_ip
  result,       \* None until the call ends; then Some([raised, val])
  \* one call of safe_ipinfo_lookup
  l_ip,         \* the address
  l_reply,      \* what handler.getDetails does for it
  l_pc,         \* "idle", "call", "done"
  l_called,     \* was handler.getDetails called
  l_result,     \* what the call hands back
  \* one run of iter_alert_lines and its consumer
  has_handler,  \* is ipinfo_handler supplied
  msgs,         \* the messages taken from unread_items so far
  parsed,       \* the triple parsed from each of them
  pc,           \* where the generator stands
  attribution,  \* the Optional text of the current alert
  out,          \* the lines handed to the consumer
  calls,        \* the calls of handler.getDetails
  acks          \* the attempts to set msg.Unread = False

parse_vars == <<body, p_pc, lines, acc, result>>

lookup_vars == <<l_ip, l_reply, l_pc, l_called, l_result>>

digest_vars == <<has_handler, msgs, parsed, pc, attribution, out, calls, acks>>

vars == <<which, parse_vars, lookup_vars, digest_vars>>

ParseIdle ==
  /\ body = None
  /\ p_pc = "idle"
  /\ lines = <<>>
  /\ acc = LineStart
  /\ result = None

LookupIdle ==
  /\ l_ip = <<>>
  /\ l_reply = Fault
  /\ l_pc = "idle"
  /\ l_called = FALSE
  /\ l_result = Answer(None)

DigestIdle ==
  /\ has_handler = FALSE
  /\ msgs = <<>>
  /\ parsed = <<>>
  /\ pc = "idle"
  /\ attribution = None
  /\ out = <<>>
  /\ calls = <<>>
  /\ acks = <<>>

\* ------------------------------------------------------------------------
\* parse_fireeye_email_body step by step
\* ------------------------------------------------------------------------
\* the first part of the call for the module that runs: maIn.py has no
\* structured mode
DispatchFor(w, b) == IF w = "fireeye" THEN Dispatch(b) ELSE "linemode"

\* lines 38-64: the structured attempt returns its triple
ReturnStructured ==
  /\ p_pc = "call"
  /\ DispatchFor(which, body) = "return"
  /\ result' = Some(Returned(StructuredAttempt(Strip(OrEmpty(body))).val))
  /\ p_pc' = "done"
  /\ UNCHANGED <<which, body, lines, acc, lookup_vars, digest_vars>>

\* EnterLineMode without the assignments of lines 68-71: the accumulators
\* keep what the call before left in them
EnterLineModeKeepsState ==
  /\ p_pc = "call"
  /\ DispatchFor(which, body) # "return"
  /\ IF DispatchFor(which, body) = "linemode"
     THEN /\ lines' = SplitLines(OrEmpty(body))
          /\ p_pc' = "scan"
          /\ UNCHANGED <<acc, result>>
     ELSE /\ result' = Some(Raised)
          /\ p_pc' = "done"
          /\ UNCHANGED <<acc, lines>>
  /\ UNCHANGED <<which, body, lookup_vars, digest_vars>>

\* EnterLineMode without the assignments of lines 68-70: the loop starts
\* from what the structured attempt left in sig_name, src_ip and dst_ip
EnterLineModeKeepsFields ==
  /\ p_pc = "call"
  /\ DispatchFor(which, body) # "return"
  /\ IF DispatchFor(which, body) = "linemode"
     THEN /\ \E t \in {IF which = "fireeye" /\ LooksLikeJson(Strip(OrEmpty(body)))
                        THEN PartialFields(Strip(OrEmpty(body)))
                        ELSE EmptyTriple} :
               acc' = [sig_name |-> t.sig_name, src_ip |-> t.src_ip,
                       dst_ip |-> t.dst_ip, expecting_src_ip |-> FALSE]
          /\ lines' = SplitLines(OrEmpty(body))
          /\ p_pc' = "scan"
          /\ UNCHANGED result
     ELSE /\ result' = Some(Raised)
          /\ p_pc' = "done"
          /\ UNCHANGED <<acc, lines>>
  /\ UNCHANGED <<which, body, lookup_vars, digest_vars>>

\* lines 68-73: the accumulators are reset and the body is split
EnterLineMode ==
  /\ p_pc = "call"
  /\ DispatchFor(which, body) # "return"
  /\ IF DispatchFor(which, body) = "linemode"
     THEN /\ acc' = LineStart
          /\ lines' = SplitLines(OrEmpty(body))
          /\ p_pc' = "scan"
          /\ UNCHANGED result
     ELSE /\ result' = Some(Raised)
          /\ p_pc' = "done"
          /\ UNCHANGED <<acc, lines>>
  /\ UNCHANGED <<which, body, lookup_vars, digest_vars>>

\* one iteration of the loop, for a line of the given kind
ScanLine(kind) ==
  /\ p_pc = "scan"
  /\ lines # <<>>
  /\ LineKind(Head(lines)) = kind
  /\ acc' = LineStep(acc, Head(lines))
  /\ lines' = Tail(lines)
  /\ UNCHANGED <<which, body, p_pc, result, lookup_vars, digest_vars>>

SigLine == ScanLine("sig")

SrcMarker == ScanLine("src")

IpLine == ScanLine("ip")

OtherLine == ScanLine("other")

\* line 92: return sig_name, src_ip, dst_ip
ReturnLines ==
  /\ p_pc = "scan"
  /\ lines = <<>>
  /\ result' = Some(Returned(Triple(acc.sig_name, acc.src_ip, acc.dst_ip)))
  /\ p_pc' = "done"
  /\ UNCHANGED <<which, body, lines, acc, lookup_vars, digest_vars>>

ParseInit ==
  /\ which \in {"fireeye", "main"}
  /\ body \in Bodies
  /\ which = "main" => body # None
  /\ p_pc = "call"
  /\ lines = <<>>
  /\ acc = LineStart
  /\ result = None
  /\ LookupIdle
  /\ DigestIdle

ParseNext ==
  \/ ReturnStructured
  \/ EnterLineMode
  \/ SigLine
  \/ SrcMarker
  \/ IpLine
  \/ OtherLine
  \/ ReturnLines

SpecParse == ParseInit /\ [][ParseNext]_vars

\* ------------------------------------------------------------------------
\* safe_ipinfo_lookup on its own
\* ------------------------------------------------------------------------
\* line 14: the address fails the shape check
RejectAddress ==
  /\ l_pc = "call"
  /\ ~Forwarded(l_ip)
  /\ l_result' = safe_ipinfo_lookup(l_ip, l_reply)
  /\ l_pc' = "done"
  /\ UNCHANGED <<which, l_ip, l_reply, l_called, parse_vars, digest_vars>>

\* lines 17-31: the handler is called and its reply formatted
LookupAddress ==
  /\ l_pc = "call"
  /\ Forwarded(l_ip)
  /\ l_called' = TRUE
  /\ l_result' = safe_ipinfo_lookup(l_ip, l_reply)
  /\ l_pc' = "done"
  /\ UNCHANGED <<which, l_ip, l_reply, parse_vars, digest_vars>>

LookupInit ==
  /\ which \in {"fireeye", "main"}
  /\ l_ip \in Addresses
  /\ l_reply \in AllReplies
  /\ l_pc = "call"
  /\ l_called = FALSE
  /\ l_result = Answer(None)
  /\ ParseIdle
  /\ DigestIdle

LookupNext == RejectAddress \/ LookupAddress

SpecLookup == LookupInit /\ [][LookupNext]_vars

\* ------------------------------------------------------------------------
\* iter_alert_lines and the loop that consumes it  (fireeye.py 118-138,
\*                                          maIn.py 107-129 and 155-159)
\* pc: "next"         at the head of "for msg in unread_items"
\*     "header"       about to yield the header line
\*     "source"       suspended at the first yield, the source line comes next
\*     "attribution"  suspended at the second yield, the lookup comes next
\*     "deliver"      about to yield the attribution line
\*     "mark"         suspended at the third yield, msg.Unread = False comes next
\*     "done"         the generator is exhausted
\*     "closed"       the consumer stopped iterating
\*     "raised"       an exception left the generator
\* ------------------------------------------------------------------------
Current == Len(msgs)

\* for msg in unread_items: the folder hands over one more message, which is
\* parsed                                        (fireeye.py 118-125)
NextAlert ==
  /\ pc = "next"
  /\ Len(msgs) < MaxAlerts
  /\ \E msg \in Messages :
       /\ msgs' = Append(msgs, msg)
       /\ \E r \in {ParseFor(which, Some(OrEmpty(msg.Body)))} :
            IF r.raised THEN pc' = "raised" /\ UNCHANGED parsed
            ELSE pc' = "header" /\ parsed' = Append(parsed, r.val)
  /\ attribution' = None
  /\ UNCHANGED <<which, has_handler, out, calls, acks, parse_vars, lookup_vars>>

\* unread_items has no more messages
Exhausted ==
  /\ pc = "next"
  /\ pc' = "done"
  /\ UNCHANGED <<which, has_handler, msgs, parsed, attribution, out, calls, acks,
                 parse_vars, lookup_vars>>

\* line 126
YieldHeader ==
  /\ pc = "header"
  /\ out' = Append(out, HeaderLine(msgs[Current].SentOn, parsed[Current].sig_name,
                                   parsed[Current].dst_ip))
  /\ pc' = "source"
  /\ UNCHANGED <<which, has_handler, msgs, parsed, attribution, calls, acks,
                 parse_vars, lookup_vars>>

\* line 127
YieldSource ==
  /\ pc = "source"
  /\ out' = Append(out, SourceLine(parsed[Current].src_ip))
  /\ pc' = "attribution"
  /\ UNCHANGED <<which, has_handler, msgs, parsed, attribution, calls, acks,
                 parse_vars, lookup_vars>>

\* lines 129-130: ip_lookup_fn(ipinfo_handler, src_ip.strip()), the function
\* being safe_ipinfo_lookup; the handler answers with any of its replies
Lookup ==
  /\ pc = "attribution"
  /\ WantsLookup(has_handler, parsed[Current].src_ip)
  /\ \E reply \in Replies, ip \in {Strip(parsed[Current].src_ip)} :
       /\ calls' = IF Forwarded(ip)
                   THEN Append(calls, [alert |-> Current, ip |-> ip,
                                       reply |-> reply, emitted |-> Len(out)])
                   ELSE calls
       /\ \E r \in {safe_ipinfo_lookup(ip, reply)} :
            IF r.raised THEN pc' = "raised" /\ UNCHANGED attribution
            ELSE pc' = "deliver" /\ attribution' = r.val
  /\ UNCHANGED <<which, has_handler, msgs, parsed, out, acks, parse_vars, lookup_vars>>

\* lines 132-133: no handler or no source
SkipLookup ==
  /\ pc = "attribution"
  /\ ~WantsLookup(has_handler, parsed[Current].src_ip)
  /\ attribution' = None
  /\ pc' = "deliver"
  /\ UNCHANGED <<which, has_handler, msgs, parsed, out, calls, acks,
                 parse_vars, lookup_vars>>

\* line 131 or 133
YieldAttribution ==
  /\ pc = "deliver"
  /\ out' = Append(out, AttributionLine(attribution))
  /\ pc' = "mark"
  /\ UNCHANGED <<which, has_handler, msgs, parsed, attribution, calls, acks,
                 parse_vars, lookup_vars>>

\* MarkRead without the except clause: a failed assignment leaves the
\* generator as an exception
MarkReadPropagates ==
  /\ pc = "mark"
  /\ \E ok \in BOOLEAN :
       /\ acks' = Append(acks, [alert |-> Current, ok |-> ok, emitted |-> Len(out)])
       /\ pc' = IF ok THEN "next" ELSE "raised"
  /\ UNCHANGED <<which, has_handler, msgs, parsed, attribution, out, calls,
                 parse_vars, lookup_vars>>

\* lines 135-138: msg.Unread = False; the assignment may fail, and the
\* exception is swallowed
MarkRead ==
  /\ pc = "mark"
  /\ \E ok \in BOOLEAN :
       acks' = Append(acks, [alert |-> Current, ok |-> ok, emitted |-> Len(out)])
  /\ pc' = "next"
  /\ UNCHANGED <<which, has_handler, msgs, parsed, attribution, out, calls,
                 parse_vars, lookup_vars>>

\* ConsumerStops where closing the generator marks the message read
ConsumerStopsMarked ==
  /\ pc \in {"source", "attribution", "mark"}
  /\ pc' = "closed"
  /\ acks' = Append(acks, [alert |-> Current, ok |-> TRUE, emitted |-> Len(out)])
  /\ UNCHANGED <<which, has_handler, msgs, parsed, attribution, out, calls,
                 parse_vars, lookup_vars>>

\* the consumer stops after a line it was handed (f.write fails): the
\* suspended generator is never resumed
ConsumerStops ==
  /\ pc \in {"source", "attribution", "mark"}
  /\ pc' = "closed"
  /\ UNCHANGED <<which, has_handler, msgs, parsed, attribution, out, calls, acks,
                 parse_vars, lookup_vars>>

Init ==
  /\ which \in {"fireeye", "main"}
  /\ has_handler \in BOOLEAN
  /\ msgs = <<>>
  /\ parsed = <<>>
  /\ pc = "next"
  /\ attribution = None
  /\ out = <<>>
  /\ calls = <<>>
  /\ acks = <<>>
  /\ ParseIdle
  /\ LookupIdle

Next ==
  \/ NextAlert
  \/ Exhausted
  \/ YieldHeader
  \/ YieldSource
  \/ Lookup
  \/ SkipLookup
  \/ YieldAttribution
  \/ MarkRead
  \/ ConsumerStops

Spec == Init /\ [][Next]_vars

\* ------------------------------------------------------------------------
\* parse_fireeye_email_body called again and again, as the loop of
\* iter_alert_lines does (fireeye.py 118-123): msgs holds the bodies of the
\* calls that returned, parsed what they returned.  The locals of a call
\* are left as they are when it ends; the next call sees them unless it
\* assigns them first.
\* ------------------------------------------------------------------------
MaxCalls == 3

\* a body that ends with source capture armed
B_MARKER ==
  <<"s", "r", "c", ":">>

\* a body of one address line
B_ADDRESS ==
  <<"i", "p", ":", " ", "2", "0", "3", ".", "0", ".", "1", "1", "3", ".",
    "4", "5">>

CallBodies ==
  {Some(b) : b \in {B_MARKER, B_ADDRESS, B_TEST_ORDERING, B_TEST_MISSING,
                    A_JSON, B_NOT_JSON}}

\* sig_name, src_ip, dst_ip = parse_fireeye_email_body(body): the caller
\* takes the triple
TakeResult ==
  /\ p_pc = "done"
  /\ ~result[1].raised
  /\ msgs' = Append(msgs, [Body |-> body, SentOn |-> None])
  /\ parsed' = Append(parsed, result[1].val)
  /\ p_pc' = "idle"
  /\ UNCHANGED <<which, body, lines, acc, result, has_handler, pc, attribution,
                 out, calls, acks, lookup_vars>>

\* the next call, on any body
CallAgain ==
  /\ p_pc = "idle"
  /\ Len(msgs) < MaxCalls
  /\ body' \in CallBodies
  /\ result' = None
  /\ p_pc' = "call"
  /\ UNCHANGED <<which, lines, acc, lookup_vars, digest_vars>>

CallsInit ==
  /\ which \in {"fireeye", "main"}
  /\ body \in CallBodies
  /\ p_pc = "call"
  /\ lines = <<>>
  /\ acc = LineStart
  /\ result = None
  /\ LookupIdle
  /\ DigestIdle

CallsNext ==
  \/ ReturnStructured
  \/ EnterLineMode
  \/ SigLine
  \/ SrcMarker
  \/ IpLine
  \/ OtherLine
  \/ ReturnLines
  \/ TakeResult
  \/ CallAgain

SpecCalls == CallsInit /\ [][CallsNext]_vars

\* ------------------------------------------------------------------------
\* The line forms and the document fields of the specification, stated on
\* their own
\* ------------------------------------------------------------------------
\* whitespace that can stand inside a line
Blank == {" ", "\t"}

\* the index of the colon when the line is blanks, kw in any case, blanks,
\* ":" and anything; 0 when the line has not that form
ColonOf(line, kw) ==
  LET C == {c \in 1..Len(line) :
              /\ line[c] = ":"
              /\ \E a \in 0..(c - 1) :
                   /\ \A i \in 1..a : line[i] \in Blank
                   /\ a + Len(kw) < c
                   /\ \A k \in 1..Len(kw) : Lower(line[a + k]) = kw[k]
                   /\ \A i \in (a + Len(kw) + 1)..(c - 1) : line[i] \in Blank}
  IN  IF C = {} THEN 0 ELSE Min(C)

\* what follows the colon at index c, without the blanks around it
ValueAfter(line, c) ==
  LET n == Len(line)
      P == CHOOSE q \in ((c + 1)..(n + 1)) \X (c..n) :
             /\ q[1] <= q[2] + 1
             /\ \A i \in (c + 1)..(q[1] - 1) : line[i] \in Blank
             /\ \A i \in (q[2] + 1)..n : line[i] \in Blank
             /\ q[1] <= q[2] => line[q[1]] \notin Blank /\ line[q[2]] \notin Blank
  IN  SubSeq(line, P[1], P[2])

IsSigNameLine(line) == ColonOf(line, KW_SIG) > 0

IsSnameLine(line) == ColonOf(line, KW_SNAME) > 0

IsSignatureLine(line) == IsSigNameLine(line) \/ IsSnameLine(line)

SignatureValue(line) ==
  ValueAfter(line, IF IsSigNameLine(line) THEN ColonOf(line, KW_SIG)
                   ELSE ColonOf(line, KW_SNAME))

IsSrcMarker(line) ==
  /\ ColonOf(line, KW_SRC) > 0
  /\ \A i \in (ColonOf(line, KW_SRC) + 1)..Len(line) : line[i] \in Blank

IsIpLine(line) == ColonOf(line, KW_IP) > 0

IpValue(line) == ValueAfter(line, ColonOf(line, KW_IP))

P_SIG == <<K_alert, K_explanation, K_ips_detected, K_sig_name>>

P_SRC == <<K_alert, K_src, K_ip>>

P_DST == <<K_alert, K_dst, K_ip>>

\* the value at a path of a document: None when a key is missing or a
\* container on the way is no object
RECURSIVE ValueAt(_, _)
ValueAt(d, path) ==
  IF path = <<>> THEN Some(d)
  ELSE IF ~IsDict(d) \/ ~HasKey(d, Head(path)) THEN None
  ELSE ValueAt(DictGet(d, Head(path), JNull), Tail(path))

IsTextAt(d, path) == ValueAt(d, path) # None /\ IsStr(ValueAt(d, path)[1])

\* the stripped body and what it decodes to
Trimmed(b) == Strip(OrEmpty(b))

DecodesAsObject(b) ==
  /\ LooksLikeJson(Trimmed(b))
  /\ JsonLoads(Trimmed(b)) # None
  /\ IsDict(JsonLoads(Trimmed(b))[1])

Document(b) == JsonLoads(Trimmed(b))[1]

\* the three fields of a document as the specification reads them: the text
\* at the path, empty text for a missing or non-text value
ExactTriple(b) ==
  Triple(get_nested(Document(b), P_SIG), get_nested(Document(b), P_SRC),
         get_nested(Document(b), P_DST))

\* the same with the whitespace around each text removed
StructuredTriple(b) ==
  Triple(Strip(get_nested(Document(b), P_SIG)), Strip(get_nested(Document(b), P_SRC)),
         Strip(get_nested(Document(b), P_DST)))

\* the key is absent, or holds an object / a text
OptionalObject(d, key) == HasKey(d, key) => IsDict(DictGet(d, key, JNull))

OptionalText(d, key) == HasKey(d, key) => IsStr(DictGet(d, key, JNull))

\* the JSON alert schema of the specification: every key optional, the
\* containers objects, the three leaves text
MatchesSchema(d) ==
  /\ IsDict(d)
  /\ OptionalObject(d, K_alert)
  /\ LET alert == DictGet(d, K_alert, JObj(<<>>))
         src == DictGet(alert, K_src, JObj(<<>>))
         dst == DictGet(alert, K_dst, JObj(<<>>))
         explanation == DictGet(alert, K_explanation, JObj(<<>>))
         ips == DictGet(explanation, K_ips_detected, JObj(<<>>))
     IN  /\ OptionalObject(alert, K_src)
         /\ OptionalObject(alert, K_dst)
         /\ OptionalObject(alert, K_explanation)
         /\ OptionalText(src, K_ip)
         /\ OptionalText(dst, K_ip)
         /\ OptionalObject(explanation, K_ips_detected)
         /\ OptionalText(ips, K_sig_name)

SchemaDocument(b) == DecodesAsObject(b) /\ MatchesSchema(Document(b))

Finished == p_pc = "done" /\ result # None

IsText(x) == \A i \in 1..Len(x) : x[i] \in STRING

\* ------------------------------------------------------------------------
\* C1: in line mode an "ip:" line read while expecting_src_ip is set becomes
\* the source and clears the flag, one read while it is clear becomes the
\* destination; so a body of a signature line, a "src:" marker and two "ip:"
\* lines, in that order, yields (signature, first ip, second ip).
\* ------------------------------------------------------------------------
C1_IpStep ==
  (p_pc = "scan" /\ lines # <<>> /\ IsIpLine(Head(lines)) /\ lines' = Tail(lines))
  => IF acc.expecting_src_ip
     THEN acc' = [acc EXCEPT !.src_ip = IpValue(Head(lines)),
                             !.expecting_src_ip = FALSE]
     ELSE acc' = [acc EXCEPT !.dst_ip = IpValue(Head(lines))]

C1_OrderedBody ==
  /\ body # None
  /\ LET ls == SplitLines(body[1])
     IN  /\ Len(ls) = 4
         /\ IsSignatureLine(ls[1])
         /\ IsSrcMarker(ls[2])
         /\ IsIpLine(ls[3])
         /\ IsIpLine(ls[4])

C1_Result ==
  (Finished /\ C1_OrderedBody)
  => LET ls == SplitLines(body[1])
     IN  result[1] = Returned(Triple(SignatureValue(ls[1]), IpValue(ls[3]),
                                     IpValue(ls[4])))

C1_SourceThenDestination == [](C1_Result) /\ [][C1_IpStep]_vars

C1_Witness ==
  /\ Finished
  /\ C1_OrderedBody
  /\ result[1].val.src_ip # <<>>
  /\ result[1].val.dst_ip # <<>>
  /\ result[1].val.src_ip # result[1].val.dst_ip

\* ------------------------------------------------------------------------
\* C2: a body that is brace-delimited, decodes as a JSON object and has at
\* least one of the three fields non-empty yields the structured triple,
\* absent fields being empty text; line mode contributes nothing.
\* ------------------------------------------------------------------------
C2_StructuredWins ==
  (which = "fireeye" /\ Finished /\ DecodesAsObject(body)
   /\ StructuredTriple(body) # EmptyTriple)
  => result[1] = Returned(StructuredTriple(body))

\* ------------------------------------------------------------------------
\* C3: a missing key or a non-text value at one of the three paths reads as
\* empty text for that field and does not keep the other fields of the
\* document from being returned.
\* ------------------------------------------------------------------------
C3_FieldsReadAlone ==
  (which = "fireeye" /\ Finished /\ DecodesAsObject(body)
   /\ (\E path \in {P_SIG, P_SRC, P_DST} : ~IsTextAt(Document(body), path))
   /\ (\E path \in {P_SIG, P_SRC, P_DST} : Strip(get_nested(Document(body), path)) # <<>>))
  => result[1] = Returned(StructuredTriple(body))

\* ------------------------------------------------------------------------
\* C4: a valid JSON body matching the alert schema with at least one
\* non-empty leaf yields exactly its leaves, whatever line-mode content its
\* strings hold.
\* C4 as amended: ... with at least one leaf that is non-empty once the
\* whitespace around it is removed yields its leaves with the whitespace
\* around them removed, whatever line-mode content its strings hold.
\* ------------------------------------------------------------------------
C4_ExactLeaves ==
  (which = "fireeye" /\ Finished /\ SchemaDocument(body)
   /\ ExactTriple(body) # EmptyTriple)
  => result[1] = Returned(ExactTriple(body))

C4_TrimmedLeaves ==
  (which = "fireeye" /\ Finished /\ SchemaDocument(body)
   /\ StructuredTriple(body) # EmptyTriple)
  => result[1] = Returned(StructuredTriple(body))

C4_Witness ==
  /\ which = "fireeye"
  /\ Finished
  /\ SchemaDocument(body)
  /\ StructuredTriple(body) # EmptyTriple
  /\ StructuredTriple(body) # ExactTriple(body)
  /\ MainParse(body[1]) # EmptyTriple
  /\ result[1] = Returned(StructuredTriple(body))

\* ------------------------------------------------------------------------
\* C5: a body that is no JSON and has no "src:" line, no "ip:" line and no
\* "sig-name:" line yields ("", "", "").
\* C5 as amended: ... and no "sig-name:" or "sname:" line yields ("", "", "").
\* ------------------------------------------------------------------------
NotJson(b) == JsonLoads(Trimmed(b)) = None

C5_NoFieldLines ==
  (Finished /\ NotJson(body)
   /\ \A i \in 1..Len(SplitLines(OrEmpty(body))) :
        LET line == SplitLines(OrEmpty(body))[i]
        IN  ~IsSrcMarker(line) /\ ~IsIpLine(line) /\ ~IsSigNameLine(line))
  => result[1] = Returned(EmptyTriple)

C5_NoSignatureLines ==
  (Finished /\ NotJson(body)
   /\ \A i \in 1..Len(SplitLines(OrEmpty(body))) :
        LET line == SplitLines(OrEmpty(body))[i]
        IN  ~IsSrcMarker(line) /\ ~IsIpLine(line) /\ ~IsSignatureLine(line))
  => result[1] = Returned(EmptyTriple)

C5_Witness ==
  /\ Finished
  /\ NotJson(body)
  /\ Len(SplitLines(OrEmpty(body))) >= 2
  /\ \A i \in 1..Len(SplitLines(OrEmpty(body))) : SplitLines(OrEmpty(body))[i] = L_OTHER
  /\ result[1] = Returned(EmptyTriple)

\* ------------------------------------------------------------------------
\* C6: the call never fails: whatever the body (empty, absent, braces around
\* text that is no JSON, containers that are no objects) it raises nothing
\* and returns three texts; a decode failure falls through to line mode.
\* ------------------------------------------------------------------------
C6_NeverFails ==
  /\ p_pc = "done" =>
       /\ result # None
       /\ ~result[1].raised
       /\ IsText(result[1].val.sig_name)
       /\ IsText(result[1].val.src_ip)
       /\ IsText(result[1].val.dst_ip)
  /\ (which = "fireeye" /\ Finished /\ LooksLikeJson(Trimmed(body)) /\ NotJson(body))
       => \E st \in {ScanLines(LineStart, SplitLines(OrEmpty(body)))} :
            result[1] = Returned(Triple(st.sig_name, st.src_ip, st.dst_ip))

C6_Witness ==
  /\ which = "fireeye"
  /\ Finished
  /\ LooksLikeJson(Trimmed(body))
  /\ NotJson(body)
  /\ ~result[1].raised
  /\ result[1].val.sig_name # <<>>

\* ------------------------------------------------------------------------
\* The lines of the digest as the specification words them
\* ------------------------------------------------------------------------
TAB2 == <<"\t", "\t">>

NL == <<"\n">>

UnidentifiedLine == TAB2 \o UNIDENTIFIED \o NL

\* "{time or UnknownTime}: {signature or UnknownSig} - {destination or UnknownDst}"
HeaderOf(i) ==
  (IF msgs[i].SentOn = None THEN UnknownTime ELSE TimeStr(msgs[i].SentOn[1]))
  \o <<":", " ">>
  \o (IF parsed[i].sig_name = <<>> THEN UnknownSig ELSE parsed[i].sig_name)
  \o <<" ", "-", " ">>
  \o (IF parsed[i].dst_ip = <<>> THEN UnknownDst ELSE parsed[i].dst_ip)
  \o NL

\* "\t\tSource: {source or UnknownSrc}"
SourceOf(i) ==
  SOURCE_LABEL
  \o (IF parsed[i].src_ip = <<>> THEN UnknownSrc ELSE parsed[i].src_ip)
  \o NL

\* a line "\t\t<text>\n" with some text
IsAttributionLine(line) ==
  /\ Len(line) > 3
  /\ SubSeq(line, 1, 2) = TAB2
  /\ line[Len(line)] = "\n"
  /\ \A i \in 3..(Len(line) - 1) : line[i] # "\n"

\* the alert a line of the output belongs to, and its place in the alert
AlertOfLine(k) == ((k - 1) \div 3) + 1

PlaceOfLine(k) == ((k - 1) % 3) + 1

\* four groups of one to three digits, separated by three dots
DottedQuad(ip) ==
  \E a, b, c \in {i \in 1..Len(ip) : ip[i] = "."} :
    /\ a < b /\ b < c
    /\ \A i \in 1..Len(ip) : IF i \in {a, b, c} THEN ip[i] = "." ELSE ip[i] \in Digits
    /\ a - 1 \in 1..3
    /\ b - a - 1 \in 1..3
    /\ c - b - 1 \in 1..3
    /\ Len(ip) - c \in 1..3

CallsFor(i) == {k \in 1..Len(calls) : calls[k].alert = i}

\* ------------------------------------------------------------------------
\* C7: each alert, in arrival order, gives exactly three lines: the header
\* "{time or UnknownTime}: {signature or UnknownSig} - {destination or
\* UnknownDst}", the source "\t\tSource: {source or UnknownSrc}" and one
\* attribution line (the attribution text or "\t\tUNIDENTIFIED"); n alerts
\* give 3n lines, those of alert i before those of alert i+1.
\* ------------------------------------------------------------------------
C7_ThreeLinesPerAlert ==
  /\ pc # "raised"
  /\ Len(out) <= 3 * Len(msgs)
  /\ Len(out) >= 3 * (Len(msgs) - 1)
  /\ \A k \in 1..Len(out) :
       CASE PlaceOfLine(k) = 1 -> out[k] = HeaderOf(AlertOfLine(k))
         [] PlaceOfLine(k) = 2 -> out[k] = SourceOf(AlertOfLine(k))
         [] OTHER -> IsAttributionLine(out[k])
  /\ pc = "mark" =>
       out[Len(out)] = IF attribution = None \/ attribution[1] = <<>>
                       THEN UnidentifiedLine
                       ELSE TAB2 \o attribution[1] \o NL
  /\ pc = "done" => Len(out) = 3 * Len(msgs)

C7_Witness ==
  /\ pc = "done"
  /\ Len(msgs) = 2
  /\ msgs[1].Body = Some(A_VALID)
  /\ msgs[2].Body = Some(A_RANGE)
  /\ Len(out) = 6
  /\ out[3] # UnidentifiedLine
  /\ out[6] = UnidentifiedLine

\* ------------------------------------------------------------------------
\* C8: handler.getDetails is called at most once per alert, after the two
\* first lines of that alert and before the next alert is started, and only
\* with a handler, a non-empty parsed source and a trimmed source of
\* dotted-quad shape; a source failing the shape is never looked up and gives
\* "UNIDENTIFIED"; "999.999.999.999" passes and is looked up.
\* ------------------------------------------------------------------------
C8_LookupOnlyWellFormed ==
  /\ \A k \in 1..Len(calls) :
       /\ has_handler
       /\ calls[k].alert \in 1..Len(msgs)
       /\ parsed[calls[k].alert].src_ip # <<>>
       /\ calls[k].ip = Strip(parsed[calls[k].alert].src_ip)
       /\ DottedQuad(calls[k].ip)
       /\ calls[k].emitted = 3 * (calls[k].alert - 1) + 2
       /\ \A j \in 1..Len(calls) : calls[j].alert = calls[k].alert => j = k
  /\ \A i \in 1..Len(parsed) :
       Len(out) >= 3 * i =>
         /\ ~DottedQuad(Strip(parsed[i].src_ip)) =>
              CallsFor(i) = {} /\ out[3 * i] = UnidentifiedLine
         /\ (has_handler /\ Strip(parsed[i].src_ip) = IP_RANGE) =>
              \E k \in CallsFor(i) : calls[k].ip = IP_RANGE

C8_Witness ==
  /\ pc = "done"
  /\ has_handler
  /\ Len(msgs) = 2
  /\ parsed[1].src_ip = IP_RANGE
  /\ parsed[2].src_ip = IP_HOST
  /\ Len(calls) = 1
  /\ calls[1].ip = IP_RANGE
  /\ out[6] = UnidentifiedLine

\* ------------------------------------------------------------------------
\* C9: when the lookup of alert i faults, the fault stays inside
\* safe_ipinfo_lookup, the attribution line of alert i is
\* "\t\tUNIDENTIFIED", and the later alerts are still processed and give
\* their three lines.
\* ------------------------------------------------------------------------
C9_FaultDegrades ==
  /\ pc # "raised"
  /\ \A k \in 1..Len(calls) :
       calls[k].reply.fault =>
         /\ pc = "deliver" /\ calls[k].alert = Current => attribution = None
         /\ Len(out) >= 3 * calls[k].alert => out[3 * calls[k].alert] = UnidentifiedLine
         /\ pc = "done" => Len(out) = 3 * Len(msgs)
         /\ (Len(msgs) > calls[k].alert /\ pc \in {"mark", "next", "done"}) =>
              /\ Len(out) = 3 * Len(msgs)
              /\ out[Len(out) - 2] = HeaderOf(Len(msgs))

C9_Witness ==
  /\ pc = "done"
  /\ Len(msgs) = 2
  /\ Len(calls) = 2
  /\ calls[1].alert = 1
  /\ calls[1].reply.fault
  /\ ~calls[2].reply.fault
  /\ out[3] = UnidentifiedLine
  /\ out[6] # UnidentifiedLine
  /\ Len(out) = 6

\* ------------------------------------------------------------------------
\* C10: safe_ipinfo_lookup composes "from {city}, {country} ({organization})"
\* with empty text for missing sub-fields, returns absence only when the
\* composed text without any whitespace is "from,()", and otherwise returns
\* the composed text with its spacing.
\* ------------------------------------------------------------------------
Composed(details) ==
  FROM \o (IF details.city = None THEN <<>> ELSE details.city[1])
  \o <<",", " ">>
  \o (IF details.country_name = None THEN <<>> ELSE details.country_name[1])
  \o <<" ", "(">>
  \o (IF details.org = None THEN <<>> ELSE details.org[1])
  \o <<")">>

WithoutWhitespace(text) == Pick(text, {i \in 1..Len(text) : text[i] \notin Whitespace})

C10_AbsenceOnlyWhenEmpty ==
  (l_pc = "done" /\ l_called /\ ~l_reply.fault)
  => l_result = Answer(IF WithoutWhitespace(Composed(l_reply.details)) = DEGENERATE
                       THEN None
                       ELSE Some(Composed(l_reply.details)))

\* ------------------------------------------------------------------------
\* C11: a lookup record whose city, country_name and org are all missing or
\* empty gives absence, so the digest shows "\t\tUNIDENTIFIED" for that
\* alert and never a placeholder such as "from ,  ()".
\* ------------------------------------------------------------------------
IsEmptyField(field) == field = None \/ field[1] = <<>>

AllUnknown(reply) ==
  /\ ~reply.fault
  /\ IsEmptyField(reply.details.city)
  /\ IsEmptyField(reply.details.country_name)
  /\ IsEmptyField(reply.details.org)

C11_AllUnknownIsAbsent ==
  \A k \in 1..Len(calls) :
    AllUnknown(calls[k].reply) =>
      /\ (pc = "deliver" /\ calls[k].alert = Current) => attribution = None
      /\ Len(out) >= 3 * calls[k].alert => out[3 * calls[k].alert] = UnidentifiedLine

C11_Witness ==
  /\ pc = "done"
  /\ Len(calls) = 2
  /\ calls[1].reply = Reply(NoDetails)
  /\ calls[2].reply.details.city = Some(<<>>)
  /\ AllUnknown(calls[2].reply)
  /\ out[3] = UnidentifiedLine
  /\ out[6] = UnidentifiedLine

\* ------------------------------------------------------------------------
\* C12: the digest parses every body with the dual-mode parser: for an alert
\* whose body is a JSON object matching the alert schema, the header line
\* carries the signature and destination read from the JSON and the source
\* line the source read from the JSON, in maIn.py as in parsers/fireeye.py.
\* ------------------------------------------------------------------------
BodyOf(i) == Some(IF msgs[i].Body = None THEN <<>> ELSE msgs[i].Body[1])

HeaderFrom(sent_on, t) ==
  (IF sent_on = None THEN UnknownTime ELSE TimeStr(sent_on[1]))
  \o <<":", " ">>
  \o (IF t.sig_name = <<>> THEN UnknownSig ELSE t.sig_name)
  \o <<" ", "-", " ">>
  \o (IF t.dst_ip = <<>> THEN UnknownDst ELSE t.dst_ip)
  \o NL

SourceFrom(t) ==
  SOURCE_LABEL \o (IF t.src_ip = <<>> THEN UnknownSrc ELSE t.src_ip) \o NL

C12_DigestReadsJson ==
  \A i \in 1..Len(msgs) :
    (SchemaDocument(BodyOf(i)) /\ StructuredTriple(BodyOf(i)) # EmptyTriple) =>
      /\ Len(out) >= 3 * i - 2 =>
           out[3 * i - 2] = HeaderFrom(msgs[i].SentOn, StructuredTriple(BodyOf(i)))
      /\ Len(out) >= 3 * i - 1 =>
           out[3 * i - 1] = SourceFrom(StructuredTriple(BodyOf(i)))

\* ------------------------------------------------------------------------
\* C13: a failed mark-as-read is swallowed: the step that fails changes the
\* output no more than one that succeeds and hands control to the next
\* alert, the generator never ends with an exception, and the later alerts
\* give their lines as they would have.
\* ------------------------------------------------------------------------
C13_AckStep ==
  (Len(acks') = Len(acks) + 1)
  => /\ pc = "mark"
     /\ pc' = "next"
     /\ out' = out
     /\ <<msgs', parsed', calls'>> = <<msgs, parsed, calls>>

C13_AfterFailedAck ==
  /\ pc # "raised"
  /\ \A k \in 1..Len(acks) :
       ~acks[k].ok =>
         /\ acks[k].emitted = 3 * acks[k].alert
         /\ pc = "done" => Len(out) = 3 * Len(msgs)
         /\ \A i \in (acks[k].alert + 1)..Len(msgs) :
              /\ Len(out) >= 3 * i - 2 => out[3 * i - 2] = HeaderOf(i)
              /\ Len(out) >= 3 * i - 1 => out[3 * i - 1] = SourceOf(i)
              /\ Len(out) >= 3 * i => IsAttributionLine(out[3 * i])

C13_AckFailureSwallowed == [](C13_AfterFailedAck) /\ [][C13_AckStep]_vars

C13_Witness ==
  /\ pc = "done"
  /\ Len(msgs) = 2
  /\ Len(acks) = 2
  /\ ~acks[1].ok
  /\ acks[2].ok
  /\ Len(out) = 6
  /\ out[4] = HeaderOf(2)

\* ------------------------------------------------------------------------
\* C14: parse_fireeye_email_body keeps no state between calls: two calls on
\* the same body, whatever calls lie between them, return the same triple.
\* ------------------------------------------------------------------------
C14_SameBodySameTriple ==
  \A i, j \in 1..Len(parsed) :
    msgs[i].Body = msgs[j].Body => parsed[i] = parsed[j]

C14_Witness ==
  /\ Len(parsed) = 3
  /\ msgs[1].Body = Some(B_ADDRESS)
  /\ msgs[2].Body = Some(B_MARKER)
  /\ msgs[3].Body = Some(B_ADDRESS)
  /\ parsed[1].dst_ip # <<>>
  /\ parsed[3] = parsed[1]

\* ------------------------------------------------------------------------
\* C15: in line mode every "src:" marker re-arms source capture for the next
\* "ip:" line and a capture is used once per marker: after any number of
\* lines the "ip:" lines taken as source are no more than the markers seen,
\* and source and destination are the last values assigned in each role.
\* ------------------------------------------------------------------------
AllLines == SplitLines(IF body = None THEN <<>> ELSE body[1])

\* the "ip:" line k is the first one after some marker
TakenAsSource(ls, k) ==
  /\ IsIpLine(ls[k])
  /\ \E j \in 1..(k - 1) :
       /\ IsSrcMarker(ls[j])
       /\ \A m \in (j + 1)..(k - 1) : ~IsIpLine(ls[m])

SourceLines(ls, n) == {k \in 1..n : TakenAsSource(ls, k)}

DestinationLines(ls, n) == {k \in 1..n : IsIpLine(ls[k]) /\ ~TakenAsSource(ls, k)}

Markers(ls, n) == {k \in 1..n : IsSrcMarker(ls[k])}

LastValue(ls, S) == IF S = {} THEN <<>> ELSE IpValue(ls[Max(S)])

\* the value of the last signature line
LastSignature(ls) ==
  IF \A k \in 1..Len(ls) : ~IsSignatureLine(ls[k]) THEN <<>>
  ELSE SignatureValue(ls[Max({k \in 1..Len(ls) : IsSignatureLine(ls[k])})])

\* a marker has been read and no "ip:" line after it
Armed(ls, n) ==
  \E j \in Markers(ls, n) : \A m \in (j + 1)..n : ~IsIpLine(ls[m])

C15_Roles ==
  p_pc = "scan" =>
    \A ls \in {AllLines} : \A n \in {Len(ls) - Len(lines)} :
      /\ Cardinality(SourceLines(ls, n)) <= Cardinality(Markers(ls, n))
      /\ acc.expecting_src_ip = Armed(ls, n)
      /\ acc.src_ip = LastValue(ls, SourceLines(ls, n))
      /\ acc.dst_ip = LastValue(ls, DestinationLines(ls, n))

C15_Step ==
  /\ (p_pc = "scan" /\ lines # <<>> /\ lines' = Tail(lines) /\ IsSrcMarker(Head(lines)))
       => acc'.expecting_src_ip
  /\ (p_pc = "scan" /\ p_pc' = "done")
       => /\ lines = <<>>
          /\ result'[1].val.src_ip = acc.src_ip
          /\ result'[1].val.dst_ip = acc.dst_ip

C15_CaptureOncePerMarker == [](C15_Roles) /\ [][C15_Step]_vars

C15_Witness ==
  /\ p_pc = "done"
  /\ result # None
  /\ Len(AllLines) = 4
  /\ IsSrcMarker(AllLines[1])
  /\ IsIpLine(AllLines[2])
  /\ IsSrcMarker(AllLines[3])
  /\ IsIpLine(AllLines[4])
  /\ IpValue(AllLines[2]) # IpValue(AllLines[4])
  /\ result[1].val.src_ip = IpValue(AllLines[4])
  /\ result[1].val.dst_ip = <<>>

\* ------------------------------------------------------------------------
\* C16: a line-mode step changes only what its line kind owns: a signature
\* line ("sig-name:" or "sname:") sets the signature to its trimmed value
\* and nothing else, a "src:" marker sets the flag and nothing else, a line
\* of none of the three forms changes nothing; so the flag stays set across
\* signature lines and unmatched lines between a marker and the next "ip:".
\* ------------------------------------------------------------------------
IsUnmatched(line) == ~IsSignatureLine(line) /\ ~IsSrcMarker(line) /\ ~IsIpLine(line)

C16_Step ==
  (p_pc = "scan" /\ lines # <<>> /\ lines' = Tail(lines)) =>
    /\ IsSignatureLine(Head(lines)) =>
         acc' = [acc EXCEPT !.sig_name = SignatureValue(Head(lines))]
    /\ IsSrcMarker(Head(lines)) =>
         acc' = [acc EXCEPT !.expecting_src_ip = TRUE]
    /\ IsUnmatched(Head(lines)) => acc' = acc

C16_LineOwnsItsField == [][C16_Step]_vars

C16_Witness ==
  /\ p_pc = "done"
  /\ result # None
  /\ Len(AllLines) = 4
  /\ IsSrcMarker(AllLines[1])
  /\ IsSignatureLine(AllLines[2])
  /\ IsUnmatched(AllLines[3])
  /\ IsIpLine(AllLines[4])
  /\ result[1].val.sig_name = SignatureValue(AllLines[2])
  /\ result[1].val.src_ip = IpValue(AllLines[4])
  /\ result[1].val.src_ip # <<>>
  /\ result[1].val.dst_ip = <<>>

\* ------------------------------------------------------------------------
\* C17: a body that decodes as a JSON object with all three fields empty is
\* scanned in line mode as raw text, raises nothing, and yields ("", "", "")
\* (the JSON text matches no line pattern).
\* C17 as amended: ... is scanned in line mode as raw text, raises nothing,
\* and yields the result of that scan; this is ("", "", "") when no line of
\* the JSON text has one of the three line forms.
\* ------------------------------------------------------------------------
EmptyDocument(b) == DecodesAsObject(b) /\ StructuredTriple(b) = EmptyTriple

NoLineForm(b) ==
  \A i \in 1..Len(SplitLines(b[1])) : IsUnmatched(SplitLines(b[1])[i])

C17_EmptyJsonYieldsNothing ==
  (which = "fireeye" /\ Finished /\ EmptyDocument(body))
  => result[1] = Returned(EmptyTriple)

C17_EmptyJsonScannedAsText ==
  (which = "fireeye" /\ Finished /\ EmptyDocument(body))
  => /\ ~result[1].raised
     /\ result[1].val.sig_name = LastSignature(SplitLines(body[1]))
     /\ result[1].val.src_ip =
          LastValue(SplitLines(body[1]),
                    SourceLines(SplitLines(body[1]), Len(SplitLines(body[1]))))
     /\ result[1].val.dst_ip =
          LastValue(SplitLines(body[1]),
                    DestinationLines(SplitLines(body[1]), Len(SplitLines(body[1]))))
     /\ NoLineForm(body) => result[1] = Returned(EmptyTriple)

C17_Witness ==
  /\ which = "fireeye"
  /\ Finished
  /\ EmptyDocument(body)
  /\ ~NoLineForm(body)
  /\ result[1].val.dst_ip # <<>>

\* ------------------------------------------------------------------------
\* C18: whenever the structured attempt is abandoned (the text does not
\* decode, reading a field raises, or the three fields are empty) the loop
\* starts from empty accumulators and a clear flag on the raw body, and the
\* result is that of the line-mode scan: nothing read during the structured
\* attempt is in it unless a line puts it there.
\* ------------------------------------------------------------------------
Abandoned(b) ==
  /\ LooksLikeJson(Trimmed(b))
  /\ StructuredAttempt(Trimmed(b)).outcome # "return"

C18_Result ==
  (which = "fireeye" /\ Finished /\ Abandoned(body))
  => /\ ~result[1].raised
     /\ result[1].val.sig_name = LastSignature(AllLines)
     /\ result[1].val.src_ip = LastValue(AllLines, SourceLines(AllLines, Len(AllLines)))
     /\ result[1].val.dst_ip =
          LastValue(AllLines, DestinationLines(AllLines, Len(AllLines)))

C18_Step ==
  (p_pc = "call" /\ p_pc' = "scan")
  => /\ acc' = [sig_name |-> <<>>, src_ip |-> <<>>, dst_ip |-> <<>>,
                expecting_src_ip |-> FALSE]
     /\ lines' = AllLines

C18_AbandonedAttemptLeavesNothing == [](C18_Result) /\ [][C18_Step]_vars

C18_Witness ==
  /\ which = "fireeye"
  /\ Finished
  /\ Abandoned(body)
  /\ DecodesAsObject(body)
  /\ get_nested(Document(body), P_SRC) # <<>>
  /\ result[1] = Returned(EmptyTriple)

\* ------------------------------------------------------------------------
\* C19: the mark-as-read of alert i is attempted exactly once, after the
\* three lines of alert i have been handed to the consumer and before alert
\* i+1 is read or parsed; an alert whose lines the consumer did not all
\* take (it stopped or failed part-way) is never marked read.
\* ------------------------------------------------------------------------
C19_Acks ==
  /\ \A k \in 1..Len(acks) :
       /\ acks[k].alert = k
       /\ k <= Len(msgs)
       /\ acks[k].emitted = 3 * k
  /\ Len(msgs) - 1 <= Len(acks)
  /\ pc \in {"next", "done"} => Len(acks) = Len(msgs)
  /\ pc \in {"header", "source", "attribution", "deliver", "mark", "closed"} =>
       Len(acks) = Len(msgs) - 1

C19_Step ==
  /\ Len(msgs') > Len(msgs) => Len(acks) = Len(msgs)
  /\ Len(parsed') > Len(parsed) => Len(acks) = Len(parsed)
  /\ Len(acks') > Len(acks) => (pc = "mark" /\ Len(out) = 3 * Len(msgs))
  /\ pc = "closed" => (pc' = "closed" /\ acks' = acks)

C19_MarkReadAfterThreeLines == [](C19_Acks) /\ [][C19_Step]_vars

C19_Witness ==
  /\ pc = "closed"
  /\ Len(msgs) = 2
  /\ Len(out) = 6
  /\ Len(acks) = 1
  /\ acks[1].alert = 1

\* ------------------------------------------------------------------------
\* C20: on every body whose trimmed text does not both begin with "{" and
\* end with "}", the dual-mode parser of parsers/fireeye.py returns the same
\* triple as the line-only parser of maIn.py.
\* ------------------------------------------------------------------------
NoBraces(b) == ~(StartsWith(Trimmed(b), "{") /\ EndsWith(Trimmed(b), "}"))

C20_ParsersAgreeOffJson ==
  (Finished /\ body # None /\ NoBraces(body))
  => /\ which = "fireeye" => result[1] = Returned(MainParse(body[1]))
     /\ which = "main" => result[1] = FireeyeParse(body)

C20_Witness ==
  /\ which = "fireeye"
  /\ Finished
  /\ body # None
  /\ NoBraces(body)
  /\ Len(AllLines) = 4
  /\ result[1] = Returned(MainParse(body[1]))
  /\ result[1].val.sig_name # <<>>
  /\ result[1].val.src_ip # <<>>
  /\ result[1].val.dst_ip # <<>>

====
